---- MODULE Spec2Model ----
(***************************************************************************)
(* Active Recall Study Assistant: the note-section tree (create, update,   *)
(* delete, reorder, export, import), the question bank and the recall      *)
(* session log of backend/routers, over the tables of backend/models.py.   *)
(*                                                                         *)
(* A table is a function from the ids of its rows to the rows.  An         *)
(* Optional[...] value is a sequence: None is <<>> and the value x is      *)
(* <<x>>, so that parent_id 0 and parent_id NULL stay different values.    *)
(* A text that the code strips or joins is a sequence of characters; a     *)
(* title is one token of such a text.  The timestamps of the rows          *)
(* (created_at, updated_at) are left out: no handler reads them.           *)
(***************************************************************************)
EXTENDS Integers, Sequences, FiniteSets, TLC

VARIABLES
    sections,         \* table note_sections: id -> row
    questions,        \* table questions: id -> row
    recall_sessions,  \* table recall_sessions: id -> row
    last,             \* the last request served and its outcome
    reorders          \* the requests in flight, one per worker: a reorder
                      \* between its queries, a handler awaiting the LLM

vars == <<sections, questions, recall_sessions, last, reorders>>

(***************************************************************************)
(* Bounds of the model.                                                    *)
(***************************************************************************)
\* the largest id a section row may take
MaxId == 3
\* the largest id a question row may take
MaxRowId == 2
\* the largest id a recall session row may take
MaxRecallId == 1
\* the largest display_order (and new_order) a request may carry
MaxOrder == 2
\* the largest id of a section that a quiz or a recall reads
MaxStudyId == 2

None == <<>>
Some(x) == <<x>>

Opt(S) == {None} \cup {Some(x) : x \in S}

\* the section ids a request may name: every id a row can take
SectionIds == 1..MaxId
\* parent_id arguments: absent, 0, and every id, in use or not
ParentArgs == Opt(0..MaxId)
OrderArgs == 0..MaxOrder
\* new_order is any integer: below the list, inside it, past its end
NewOrderArgs == (-2)..(MaxOrder + 1)
\* the titles and contents the requests of the notes router carry
NoteTitles == {"A", "B"}
NoteContents == {<<"x">>}
\* the titles and contents of the sections that quizzes and recalls read
StudyTitles == {"A"}
StudyContents == {<<" ">>, <<"x">>}
\* the section_ids lists of a quiz or recall request
StudyIds == 1..MaxStudyId
SectionIdLists == UNION {[1..n -> StudyIds] : n \in 0..2}
\* user_recall texts: blank, and one with a word in it
UserRecalls == {<<" ">>, <<" ", "r">>}
Workers == {1, 2}

(***************************************************************************)
(* Helpers over sets, sequences and tables.                                *)
(***************************************************************************)
SetMax(S) == CHOOSE m \in S : \A x \in S : x <= m

\* SQLite gives a new row of an INTEGER PRIMARY KEY table (no AUTOINCREMENT)
\* the rowid max(rowid) + 1, and 1 in an empty table.
NextId(table) == IF DOMAIN table = {} THEN 1 ELSE SetMax(DOMAIN table) + 1

Insert(table, id, row) ==
    [i \in (DOMAIN table) \cup {id} |-> IF i = id THEN row ELSE table[i]]

Restrict(table, keep) == [i \in keep |-> table[i]]

EmptyTable == [i \in {} |-> 0]

Range(q) == {q[i] : i \in 1..Len(q)}

\* the sequences that list every element of S once
Perms(S) == {q \in [1..Cardinality(S) -> S] : Range(q) = S}

IndexOf(q, x) == CHOOSE i \in 1..Len(q) : q[i] = x

(***************************************************************************)
(* NoteSection rows and the relationships of the ORM model.                *)
(***************************************************************************)
NoteSection(title, content, parent_id, display_order) ==
    [parent_id |-> parent_id, title |-> title, content |-> content,
     display_order |-> display_order]

\* NoteSection.parent_id == parent_id (IS NULL when parent_id is None)
Siblings(s, parent_id) == {i \in DOMAIN s : s[i].parent_id = parent_id}

\* relationship "children": the rows whose parent_id is this row's id
Children(s, id) == Siblings(s, Some(id))

\* ORDER BY display_order leaves the order of equal keys to the database:
\* rank (a listing of all ids) decides between equal display_order values.
Before(s, rank, a, b) ==
    \/ s[a].display_order < s[b].display_order
    \/ /\ s[a].display_order = s[b].display_order
       /\ IndexOf(rank, a) < IndexOf(rank, b)

OrderBy(s, S, rank) ==
    CHOOSE q \in Perms(S) :
        \A i, j \in 1..Len(q) : i < j => Before(s, rank, q[i], q[j])

Ranks(s) == Perms(DOMAIN s)

\* every order in which ORDER BY display_order may return the rows S
Orderings(s, S) ==
    {q \in Perms(S) :
        \A i, j \in 1..Len(q) :
            i < j => s[q[i]].display_order <= s[q[j]].display_order}

\* cascade="all, delete-orphan" on children: delete follows the children
\* relationship from every deleted row.
RECURSIVE CascadeFrom(_, _, _)
CascadeFrom(s, ids, fuel) ==
    LET more == ids \cup UNION {Children(s, i) : i \in ids}
    IN  IF more = ids \/ fuel = 0 THEN ids ELSE CascadeFrom(s, more, fuel - 1)

Cascade(s, id) == CascadeFrom(s, {id}, Cardinality(DOMAIN s))

(***************************************************************************)
(* The last request: the handler, the section it named (the parent_id of   *)
(* a create, the section_id of an update, delete or reorder; None for the  *)
(* others), the kind of answer the LLM gave it ("none" when the handler    *)
(* did not call the LLM) and the outcome, "ok" or the error raised.  Of a  *)
(* check_answer request it holds the question_id and, as reply, the        *)
(* is_correct of the response.                                             *)
(***************************************************************************)
Answered(op, arg, reply, status) ==
    [op |-> op, arg |-> arg, reply |-> reply, status |-> status]

Outcome(op, arg, status) == Answered(op, arg, "none", status)

\* a worker with no request, and a worker that has served its request
Idle == [pc |-> "idle"]
Done == [pc |-> "done"]

(***************************************************************************)
(* POST /api/notes/  create_section                                        *)
(***************************************************************************)
\* Python's "if section.parent_id:" is false for None and for 0
Truthy(parent_id) == parent_id # None /\ parent_id[1] # 0

\* create_section without the check of the parent's own parent
CreateStatusAnyParent(s, parent_id) ==
    IF Truthy(parent_id) /\ parent_id[1] \notin DOMAIN s THEN "NotFound" ELSE "ok"

CreateStatus(s, parent_id) ==
    IF Truthy(parent_id)
    THEN IF parent_id[1] \notin DOMAIN s THEN "NotFound"
         ELSE IF s[parent_id[1]].parent_id # None THEN "InvalidDepth"
         ELSE "ok"
    ELSE "ok"

\* display_order = siblings_query.count()
CreateOrder(s, parent_id) == Cardinality(Siblings(s, parent_id))

CreateResult(s, title, content, parent_id) ==
    Insert(s, NextId(s),
           NoteSection(title, content, parent_id, CreateOrder(s, parent_id)))

CreateSection(title, content, parent_id) ==
    LET status == CreateStatus(sections, parent_id) IN
    /\ status = "ok" => NextId(sections) <= MaxId
    /\ sections' = IF status = "ok"
                   THEN CreateResult(sections, title, content, parent_id)
                   ELSE sections
    /\ last' = Outcome("create", parent_id, status)
    /\ UNCHANGED <<questions, recall_sessions, reorders>>

(***************************************************************************)
(* DELETE /api/notes/{section_id}  delete_section                          *)
(***************************************************************************)
DeleteStatus(s, id) == IF id \in DOMAIN s THEN "ok" ELSE "NotFound"

\* the rows db.delete(db_section) removes from a table keyed by section_id
OwnedBy(table, ids) == {r \in DOMAIN table : table[r].section_id \in ids}

DeleteSection(id) ==
    LET status == DeleteStatus(sections, id)
        gone == Cascade(sections, id)
    IN
    /\ sections' = IF status = "ok"
                   THEN Restrict(sections, (DOMAIN sections) \ gone)
                   ELSE sections
    /\ questions' = IF status = "ok"
                    THEN Restrict(questions,
                                  (DOMAIN questions) \ OwnedBy(questions, gone))
                    ELSE questions
    /\ recall_sessions' =
           IF status = "ok"
           THEN Restrict(recall_sessions,
                         (DOMAIN recall_sessions) \ OwnedBy(recall_sessions, gone))
           ELSE recall_sessions
    /\ last' = Outcome("delete", Some(id), status)
    /\ UNCHANGED reorders

(***************************************************************************)
(* PUT /api/notes/{section_id}  update_section                             *)
(***************************************************************************)
UpdateStatus(s, id, parent_id) ==
    IF id \notin DOMAIN s THEN "NotFound"
    ELSE IF parent_id = None THEN "ok"
    ELSE IF parent_id[1] = id THEN "InvalidSelfParent"
    ELSE IF parent_id[1] \in DOMAIN s /\ s[parent_id[1]].parent_id # None
         THEN "InvalidDepth"
    ELSE "ok"

\* each field the request carries replaces the row's field
UpdateRow(row, title, content, display_order, parent_id) ==
    [parent_id |-> IF parent_id = None THEN row.parent_id ELSE parent_id,
     title |-> IF title = None THEN row.title ELSE title[1],
     content |-> IF content = None THEN row.content ELSE content[1],
     display_order |-> IF display_order = None THEN row.display_order
                       ELSE display_order[1]]

\* a session closed with its assignments written to the table
SessionClosedCommitting(committed, dirty) == dirty

\* get_db closes the session of a handler that raised: the table keeps what
\* is committed, and the assignments the session made to its rows are dropped
SessionClosed(committed, dirty) == committed

\* title, content and display_order are assigned before parent_id is
\* validated; a request that raises there leaves the session uncommitted
UpdateSection(id, title, content, display_order, parent_id) ==
    LET status == UpdateStatus(sections, id, parent_id) IN
    /\ sections' =
          IF status = "ok"
          THEN [sections EXCEPT ![id] =
                   UpdateRow(@, title, content, display_order, parent_id)]
          ELSE IF status = "NotFound" THEN sections
          ELSE SessionClosed(sections,
                             [sections EXCEPT ![id] =
                                 UpdateRow(@, title, content, display_order, None)])
    /\ last' = Outcome("update", Some(id), status)
    /\ UNCHANGED <<questions, recall_sessions, reorders>>

(***************************************************************************)
(* POST /api/notes/{section_id}/reorder  reorder_sections                  *)
(***************************************************************************)
\* list.insert(index, x): a negative index counts from the end, and an index
\* outside the list is clamped to its ends
PyInsertIndex(n, index) ==
    IF index < 0 THEN (IF index + n < 0 THEN 0 ELSE index + n)
    ELSE IF index > n THEN n ELSE index

PyInsert(q, index, x) ==
    LET k == PyInsertIndex(Len(q), index)
    IN  SubSeq(q, 1, k) \o <<x>> \o SubSeq(q, k + 1, Len(q))

Without(q, x) == SelectSeq(q, LAMBDA y : y # x)

\* siblings without the target, and the target inserted at new_order
Placed(id, new_order, siblings) ==
    PyInsert(Without(siblings, id), new_order, id)

\* the display_order values a session holds for the rows it loaded
LoadedOrders(s, ids) == [i \in ids |-> s[i].display_order]

\* for i, sibling in enumerate(siblings): sibling.display_order = i, then
\* commit: the session writes the rows whose value differs from the one it
\* loaded, and no other row
Flush(s, loaded, placed) ==
    [i \in DOMAIN s |->
        IF i \in Range(placed) /\ IndexOf(placed, i) - 1 # loaded[i]
        THEN [s[i] EXCEPT !.display_order = IndexOf(placed, i) - 1]
        ELSE s[i]]

\* reorder_sections that moves the target alone and renumbers nobody else
ReorderResultTargetOnly(s, id, new_order, siblings) ==
    [s EXCEPT ![id].display_order = PyInsertIndex(Len(siblings) - 1, new_order)]

\* siblings: the rows of the target's parent as the query returned them
ReorderResult(s, id, new_order, siblings) ==
    Flush(s, LoadedOrders(s, Range(siblings)), Placed(id, new_order, siblings))

ReorderStatus(s, id) == IF id \in DOMAIN s THEN "ok" ELSE "NotFound"

ReorderSections(id, new_order) ==
    LET status == ReorderStatus(sections, id) IN
    /\ IF status = "ok"
       THEN \E siblings \in Orderings(sections,
                                      Siblings(sections, sections[id].parent_id)) :
                sections' = ReorderResult(sections, id, new_order, siblings)
       ELSE sections' = sections
    /\ last' = Outcome("reorder", Some(id), status)
    /\ UNCHANGED <<questions, recall_sessions, reorders>>

(***************************************************************************)
(* GET /api/notes/export/all and POST /api/notes/import                    *)
(***************************************************************************)
ImportSection(title, content, display_order, children) ==
    [title |-> title, content |-> content, display_order |-> display_order,
     children |-> children]

\* export_section: the node of a row, its children in relationship order
\* (the fields import reads back: title, content, display_order, children)
RECURSIVE ExportSection(_, _, _, _)
ExportSection(s, id, rank, fuel) ==
    LET kids == OrderBy(s, Children(s, id), rank)
    IN  ImportSection(s[id].title, s[id].content, s[id].display_order,
            IF fuel = 0 THEN <<>>
            ELSE [k \in 1..Len(kids) |-> ExportSection(s, kids[k], rank, fuel - 1)])

\* export_data["sections"]: the top-level rows in display order
ExportAll(s, rank) ==
    LET top == OrderBy(s, Siblings(s, None), rank)
    IN  [k \in 1..Len(top) |->
            ExportSection(s, top[k], rank, Cardinality(DOMAIN s))]

\* import_section: add the row, flush to learn its id, then its children
RECURSIVE ImportOne(_, _, _)
RECURSIVE ImportList(_, _, _)
ImportOne(s, node, parent_id) ==
    LET id == NextId(s)
        added == Insert(s, id, NoteSection(node.title, node.content, parent_id,
                                           node.display_order))
    IN  ImportList(added, node.children, Some(id))

ImportList(s, nodes, parent_id) ==
    IF Len(nodes) = 0 THEN s
    ELSE ImportList(ImportOne(s, Head(nodes), parent_id), Tail(nodes), parent_id)

ImportResult(s, document) == ImportList(s, document, None)

Leaf(title, display_order) == ImportSection(title, <<"x">>, display_order, <<>>)
Branch(title, display_order, children) ==
    ImportSection(title, <<"x">>, display_order, children)

\* the documents a client posts: flat, nested, nested three deep, and with
\* display_order values that repeat or skip
ImportDocuments ==
    {<<Leaf("A", 0)>>,
     <<Leaf("A", 0), Leaf("B", 0)>>,
     <<Leaf("B", MaxOrder)>>,
     <<Branch("A", 0, <<Leaf("B", 0)>>)>>,
     <<Branch("A", 0, <<Leaf("B", 0), Leaf("A", 1)>>)>>,
     <<Branch("A", 0, <<Branch("B", 0, <<Leaf("A", 0)>>)>>)>>}

ImportNotes(document) ==
    LET result == ImportResult(sections, document) IN
    /\ SetMax(DOMAIN result) <= MaxId
    /\ sections' = result
    /\ last' = Outcome("import", None, "ok")
    /\ UNCHANGED <<questions, recall_sessions, reorders>>

(***************************************************************************)
(* Content aggregation: get_section_with_children and                      *)
(* collect_content_from_sections (the same code in quiz.py and recall.py). *)
(***************************************************************************)
Whitespace == {" ", "\n"}

\* str.strip(): drop the whitespace at both ends
RECURSIVE LStrip(_)
LStrip(text) ==
    IF Len(text) > 0 /\ Head(text) \in Whitespace THEN LStrip(Tail(text)) ELSE text

RECURSIVE RStrip(_)
RStrip(text) ==
    IF Len(text) > 0 /\ text[Len(text)] \in Whitespace
    THEN RStrip(SubSeq(text, 1, Len(text) - 1))
    ELSE text

Strip(text) == RStrip(LStrip(text))

\* Python's truth value of a str or a list: not empty
NonEmpty(q) == Len(q) > 0

\* [section] + section.children, or nothing for an id without a row: every
\* list the function may return (section.children is ordered by display_order)
SectionWithChildren(s, id, include_subsections) ==
    IF id \notin DOMAIN s THEN {<<>>}
    ELSE IF include_subsections
         THEN {<<id>> \o kids : kids \in Orderings(s, Children(s, id))}
         ELSE {<<id>>}

\* append the rows not yet in the list, in the order given
RECURSIVE AppendNew(_, _)
AppendNew(all, more) ==
    IF Len(more) = 0 THEN all
    ELSE AppendNew(IF Head(more) \in Range(all) THEN all
                   ELSE Append(all, Head(more)),
                   Tail(more))

\* all_sections of the handlers: the requested sections, first seen first
RECURSIVE ResolveFrom(_, _, _, _)
ResolveFrom(s, all, section_ids, include_subsections) ==
    IF Len(section_ids) = 0 THEN {all}
    ELSE UNION {ResolveFrom(s, AppendNew(all, found), Tail(section_ids),
                            include_subsections) :
                found \in SectionWithChildren(s, Head(section_ids),
                                              include_subsections)}

\* every list all_sections may be for the request
Resolutions(s, section_ids, include_subsections) ==
    ResolveFrom(s, <<>>, section_ids, include_subsections)

\* f"## {section.title}\n{section.content}"
ContentPart(row) == <<"#", "#", " ", row.title, "\n">> \o row.content

RECURSIVE JoinParts(_)
JoinParts(parts) ==
    IF Len(parts) = 0 THEN <<>>
    ELSE IF Len(parts) = 1 THEN Head(parts)
    ELSE Head(parts) \o <<"\n", "\n">> \o JoinParts(Tail(parts))

RECURSIVE ContentParts(_, _)
ContentParts(s, all) ==
    IF Len(all) = 0 THEN <<>>
    ELSE (IF NonEmpty(Strip(s[Head(all)].content))
          THEN <<ContentPart(s[Head(all)])>> ELSE <<>>)
         \o ContentParts(s, Tail(all))

CollectContent(s, all) == JoinParts(ContentParts(s, all))

\* the errors the handlers raise before they call the LLM
BeforeGateway == {"NoSelection", "NoRecall", "NoSectionsFound", "EmptyContent"}

\* the checks with the content check ahead of the check for no section
AggregateStatusContentFirst(s, section_ids, all) ==
    IF ~NonEmpty(section_ids) THEN "NoSelection"
    ELSE IF ~NonEmpty(Strip(CollectContent(s, all))) THEN "EmptyContent"
    ELSE IF ~NonEmpty(all) THEN "NoSectionsFound"
    ELSE "ok"

\* the checks both handlers make before they call the LLM
AggregateStatus(s, section_ids, all) ==
    IF ~NonEmpty(section_ids) THEN "NoSelection"
    ELSE IF ~NonEmpty(all) THEN "NoSectionsFound"
    ELSE IF ~NonEmpty(Strip(CollectContent(s, all))) THEN "EmptyContent"
    ELSE "ok"

(***************************************************************************)
(* JSON values as json.loads returns them: a tag and the value.            *)
(***************************************************************************)
JInt(n) == [t |-> "int", v |-> <<n>>]
JNull == [t |-> "null", v |-> <<>>]
JStr(chars) == [t |-> "str", v |-> chars]
JList(items) == [t |-> "list", v |-> items]
JDict(fields) == [t |-> "dict", v |-> fields]

\* Python's truth value of a parsed JSON value
JTruthy(j) ==
    CASE j.t = "null" -> FALSE
      [] j.t = "int" -> j.v[1] # 0
      [] j.t = "dict" -> DOMAIN j.v # {}
      [] OTHER -> Len(j.v) > 0

\* SQLite binds None, numbers and strings to a column, not lists or dicts
Bindable(value) == value.t \in {"null", "int", "str"}

\* dict.get(key, default)
Get(fields, key, default) == IF key \in DOMAIN fields THEN fields[key] ELSE default

\* what the LLM answers: no answer (the HTTP call raises), text that is not
\* JSON, or JSON text
GatewayError == [kind |-> "error", value |-> JNull]
NotJson == [kind |-> "text", value |-> JNull]
Json(value) == [kind |-> "json", value |-> value]

(***************************************************************************)
(* POST /api/quiz/generate  generate_quiz                                  *)
(***************************************************************************)
DraftMcq ==
    JDict([question_type |-> JStr(<<"mcq">>),
           question_text |-> JStr(<<"q">>),
           options |-> JList(<<JStr(<<"A">>), JStr(<<"B">>)>>),
           correct_answer |-> JStr(<<"A">>),
           explanation |-> JStr(<<"e">>)])
DraftFree ==
    JDict([question_type |-> JStr(<<"free_response">>),
           question_text |-> JStr(<<"q">>),
           options |-> JNull,
           correct_answer |-> JStr(<<"c">>),
           explanation |-> JNull])
DraftNoAnswer ==
    JDict([question_type |-> JStr(<<"free_response">>),
           question_text |-> JStr(<<"q">>),
           correct_answer |-> JNull])
EmptyDict == JDict([k \in {} |-> JNull])
\* an mcq draft whose options are not a list of strings
DraftOptions(options) ==
    JDict([question_type |-> JStr(<<"mcq">>),
           question_text |-> JStr(<<"q">>),
           options |-> options,
           correct_answer |-> JStr(<<"A">>),
           explanation |-> JNull])

\* the answers to a generation prompt
QuizReplies ==
    <<GatewayError, NotJson,
      Json(JList(<<>>)), Json(JInt(0)), Json(EmptyDict), Json(JInt(7)),
      Json(DraftMcq),
      Json(JList(<<DraftMcq>>)), Json(JList(<<DraftMcq, DraftFree>>)),
      Json(JList(<<DraftFree, JInt(7)>>)), Json(JList(<<DraftNoAnswer>>)),
      Json(JList(<<DraftOptions(JStr(<<"A">>))>>)),
      Json(JList(<<DraftOptions(JList(<<JInt(7)>>))>>))>>

\* llm_service.generate_questions: the parsed answer, [] when it does not parse
GenerateQuestions(reply) ==
    IF reply.kind = "text" THEN JList(<<>>) ELSE reply.value

\* Question(section_id=..., question_type=q_data.get(...), ...)
Question(section_id, q_data) ==
    [section_id |-> section_id,
     question_type |-> Get(q_data.v, "question_type", JStr(<<"free_response">>)),
     question_text |-> Get(q_data.v, "question_text", JStr(<<>>)),
     options |-> Get(q_data.v, "options", JNull),
     correct_answer |-> Get(q_data.v, "correct_answer", JStr(<<>>)),
     explanation |-> Get(q_data.v, "explanation", JNull)]

\* the commit stores the row: String and Text columns take what SQLite
\* binds, and the columns declared nullable=False take no NULL (options is a
\* JSON column and takes every value)
QuestionStorable(row) ==
    /\ Bindable(row.question_type) /\ row.question_type # JNull
    /\ Bindable(row.question_text) /\ row.question_text # JNull
    /\ Bindable(row.correct_answer) /\ row.correct_answer # JNull
    /\ Bindable(row.explanation)

\* "for q_data in questions_data" with q_data.get: a list of dicts
Iterable(questions_data) ==
    /\ questions_data.t = "list"
    /\ \A k \in 1..Len(questions_data.v) : questions_data.v[k].t = "dict"

\* primary_section_id = request.section_ids[0]
PrimarySectionId(section_ids) == section_ids[1]

\* the rows the loop adds, in order
SavedQuestions(section_ids, questions_data) ==
    [k \in 1..Len(questions_data.v) |->
        Question(PrimarySectionId(section_ids), questions_data.v[k])]

\* the handler adds and commits the rows: the answer is a list of dicts,
\* not empty, and every row is stored
QuestionsStored(reply) ==
    LET questions_data == GenerateQuestions(reply)
    IN  /\ reply.kind # "error"
        /\ JTruthy(questions_data)
        /\ Iterable(questions_data)
        /\ \A k \in 1..Len(questions_data.v) :
               QuestionStorable(Question(0, questions_data.v[k]))

\* QuestionResponse.options: Optional[List[str]].  The JSON column gives
\* back the value it was given; the String and Text columns give back text
QuestionResponseValid(row) ==
    \/ row.options.t = "null"
    \/ /\ row.options.t = "list"
       /\ \A k \in 1..Len(row.options.v) : row.options.v[k].t = "str"

\* the outcome of the handler once the LLM has answered: the response is
\* validated after the commit
GeneratedStatus(reply) ==
    LET questions_data == GenerateQuestions(reply)
    IN  IF reply.kind = "error" THEN "GatewayError"
        ELSE IF ~JTruthy(questions_data) THEN "GenerationFailed"
        ELSE IF ~QuestionsStored(reply) THEN "ServerError"
        ELSE IF \E k \in 1..Len(questions_data.v) :
                    ~QuestionResponseValid(Question(0, questions_data.v[k]))
             THEN "ServerError"
        ELSE "ok"

\* db.add of each row and one commit: the rows take the next rowids
RECURSIVE AddAll(_, _)
AddAll(table, rows) ==
    IF Len(rows) = 0 THEN table
    ELSE AddAll(Insert(table, NextId(table), Head(rows)), Tail(rows))

GenerateResult(table, section_ids, reply) ==
    AddAll(table, SavedQuestions(section_ids, GenerateQuestions(reply)))

\* generate_quiz is a coroutine: at "await generate_questions(...)" it gives
\* way to other requests, and keeps the request it was called with.
\* The handler up to the await:
AwaitGenerate(w, section_ids, include_subsections) ==
    /\ reorders[w].pc = "idle"
    /\ \E all \in Resolutions(sections, section_ids, include_subsections) :
           LET aggregate == AggregateStatus(sections, section_ids, all) IN
           IF aggregate = "ok"
           THEN /\ reorders' = [reorders EXCEPT ![w] =
                       [pc |-> "generate", section_ids |-> section_ids]]
                /\ last' = last
           ELSE /\ reorders' = reorders
                /\ last' = Answered("generate", None, "none", aggregate)
    /\ UNCHANGED <<sections, questions, recall_sessions>>

\* the handler from the answer of the LLM on: the rows are added with
\* section_id = request.section_ids[0] and committed, and the response is
\* validated
ResumeGenerate(w, reply) ==
    LET r == reorders[w]
        status == GeneratedStatus(reply)
    IN
    /\ r.pc = "generate"
    /\ LET result == GenerateResult(questions, r.section_ids, reply) IN
       /\ QuestionsStored(reply) => SetMax(DOMAIN result) <= MaxRowId
       /\ questions' = IF QuestionsStored(reply) THEN result ELSE questions
    /\ reorders' = [reorders EXCEPT ![w] = Idle]
    /\ last' = Answered("generate", None, reply.kind, status)
    /\ UNCHANGED <<sections, recall_sessions>>

(***************************************************************************)
(* DELETE /api/quiz/section/{section_id}/clear  clear_section_questions    *)
(***************************************************************************)
\* [section_id] and, with include_subsections, the children of its row
ClearedSections(s, section_id, include_subsections) ==
    {section_id}
        \cup (IF include_subsections /\ section_id \in DOMAIN s
              THEN Children(s, section_id) ELSE {})

\* the questions of these sections are deleted; no section need exist
ClearSectionQuestions(section_id, include_subsections) ==
    /\ questions' =
           Restrict(questions,
                    (DOMAIN questions)
                        \ OwnedBy(questions,
                                  ClearedSections(sections, section_id,
                                                  include_subsections)))
    /\ last' = Outcome("clear", Some(section_id), "ok")
    /\ UNCHANGED <<sections, recall_sessions, reorders>>

(***************************************************************************)
(* POST /api/recall/analyze  analyze_user_recall                           *)
(***************************************************************************)
\* the value analyze_recall returns when the answer does not parse
FallbackAnalysis ==
    JDict([score |-> JInt(0),
           correct_points |-> JList(<<>>),
           missed_points |-> JList(<<>>),
           inaccuracies |-> JList(<<>>),
           suggestions |->
               JList(<<JStr(<<"Unable to analyze recall. Please try again.">>)>>),
           summary |-> JStr(<<"Analysis failed due to a processing error.">>)])

\* an answer in the schema the prompt asks for, with the given score
Analysis(score) ==
    JDict([score |-> score,
           correct_points |-> JList(<<JStr(<<"p">>)>>),
           missed_points |-> JList(<<>>),
           inaccuracies |-> JList(<<>>),
           suggestions |-> JList(<<>>),
           summary |-> JStr(<<"s">>)])

AnalysisNoScore ==
    JDict([correct_points |-> JList(<<JStr(<<"p">>)>>),
           summary |-> JStr(<<"s">>)])

\* the answers to an analysis prompt
RecallReplies ==
    <<GatewayError, NotJson,
      Json(Analysis(JInt(75))), Json(Analysis(JInt(150))),
      Json(Analysis(JInt(-5))), Json(Analysis(JNull)),
      Json(Analysis(JStr(<<"h">>))), Json(Analysis(JList(<<>>))),
      Json(AnalysisNoScore), Json(JList(<<>>))>>

\* llm_service.analyze_recall: the parsed answer, the fallback when it does
\* not parse
AnalyzeRecall(reply) ==
    IF reply.kind = "text" THEN FallbackAnalysis ELSE reply.value

\* score=analysis.get("score", 0)
AnalysisScore(analysis) == Get(analysis.v, "score", JInt(0))

RecallSession(section_id, user_recall, analysis) ==
    [section_id |-> section_id, user_recall |-> user_recall,
     analysis |-> analysis, score |-> AnalysisScore(analysis)]

\* primary_section = all_sections[0]
PrimarySection(all) == all[1]

\* the checks of the handler before it calls the LLM
SubmissionStatus(s, section_ids, user_recall, all) ==
    IF ~NonEmpty(section_ids) THEN "NoSelection"
    ELSE IF ~NonEmpty(Strip(user_recall)) THEN "NoRecall"
    ELSE AggregateStatus(s, section_ids, all)

\* the handler adds and commits the row: analysis.get works on a dict, and
\* SQLite binds the score
SessionStored(reply) ==
    /\ reply.kind # "error"
    /\ AnalyzeRecall(reply).t = "dict"
    /\ Bindable(AnalysisScore(AnalyzeRecall(reply)))

\* RecallSessionResponse.score: Optional[int].  The Integer column gives
\* back a str that is no numeral as the str it was given, and the response
\* is then refused (the strings of the model are no numerals)
ResponseValid(reply) ==
    AnalysisScore(AnalyzeRecall(reply)).t \in {"null", "int"}

\* the outcome of the handler once the LLM has answered
AnalyzedStatus(reply) ==
    IF reply.kind = "error" THEN "GatewayError"
    ELSE IF ~SessionStored(reply) THEN "ServerError"
    ELSE IF ~ResponseValid(reply) THEN "ServerError"
    ELSE "ok"

AnalyzeResult(table, user_recall, all, reply) ==
    Insert(table, NextId(table),
           RecallSession(PrimarySection(all), user_recall, AnalyzeRecall(reply)))

\* analyze_user_recall is a coroutine: at "await analyze_recall(...)" it
\* gives way to other requests, and keeps the request and the rows its
\* session loaded.  The handler up to the await:
AwaitAnalyze(w, section_ids, user_recall, include_subsections) ==
    /\ reorders[w].pc = "idle"
    /\ \E all \in Resolutions(sections, section_ids, include_subsections) :
           LET submission ==
                   SubmissionStatus(sections, section_ids, user_recall, all)
           IN
           IF submission = "ok"
           THEN /\ reorders' = [reorders EXCEPT ![w] =
                       [pc |-> "analyze", section_ids |-> section_ids,
                        all |-> all, user_recall |-> user_recall]]
                /\ last' = last
           ELSE /\ reorders' = reorders
                /\ last' = Answered("analyze", None, "none", submission)
    /\ UNCHANGED <<sections, questions, recall_sessions>>

\* the handler from the answer of the LLM on: primary_section.id is the id
\* the session loaded, the row is committed, and the response then reads
\* primary_section.title, which the commit expired: the reload fails when
\* the section is gone.  The response is validated last.
ResumeAnalyze(w, reply) ==
    LET r == reorders[w] IN
    /\ r.pc = "analyze"
    /\ SessionStored(reply) => NextId(recall_sessions) <= MaxRecallId
    /\ recall_sessions' =
           IF SessionStored(reply)
           THEN AnalyzeResult(recall_sessions, r.user_recall, r.all, reply)
           ELSE recall_sessions
    /\ reorders' = [reorders EXCEPT ![w] = Idle]
    /\ last' = Answered("analyze", None, reply.kind,
                        IF /\ SessionStored(reply)
                           /\ PrimarySection(r.all) \notin DOMAIN sections
                        THEN "ServerError" ELSE AnalyzedStatus(reply))
    /\ UNCHANGED <<sections, questions>>

(***************************************************************************)
(* Specification of the request handlers, one request at a time.           *)
(***************************************************************************)
Init ==
    /\ sections = EmptyTable
    /\ questions = EmptyTable
    /\ recall_sessions = EmptyTable
    /\ last = Outcome("start", None, "ok")
    /\ reorders = [w \in Workers |-> [pc |-> "idle"]]

\* the bodies of PUT requests: every choice of parent_id, with at most one
\* of title, content and display_order beside it (the handler assigns each
\* field on its own, so a request that carries more of them is a sequence of
\* these)
UpdateRequests(T, C) ==
    {r \in [title : Opt(T), content : Opt(C), display_order : Opt(OrderArgs),
            parent_id : ParentArgs] :
        Cardinality({f \in {"title", "content", "display_order"} : r[f] # None}) <= 1}

\* create, update, delete and reorder
TreeNext ==
    \/ \E t \in NoteTitles, c \in NoteContents, p \in ParentArgs :
           CreateSection(t, c, p)
    \/ \E id \in SectionIds, r \in UpdateRequests(NoteTitles, NoteContents) :
           UpdateSection(id, r.title, r.content, r.display_order, r.parent_id)
    \/ \E id \in SectionIds : DeleteSection(id)
    \/ \E id \in SectionIds, n \in NewOrderArgs : ReorderSections(id, n)

TreeSpec == Init /\ [][TreeNext]_vars

\* every request of the notes router that writes
Next ==
    \/ TreeNext
    \/ \E d \in ImportDocuments : ImportNotes(d)

Spec == Init /\ [][Next]_vars

(***************************************************************************)
(* Properties of the section tree.                                         *)
(***************************************************************************)
\* the display_order values of the rows under parent_id are exactly 0..n-1
Dense(s, parent_id) ==
    {s[i].display_order : i \in Siblings(s, parent_id)}
        = 0..(Cardinality(Siblings(s, parent_id)) - 1)

\* two stores hold the same forest: a one-to-one map of the rows that keeps
\* title, content, display_order and the parent of every row
Isomorphic(s1, s2) ==
    /\ Cardinality(DOMAIN s1) = Cardinality(DOMAIN s2)
    /\ \E f \in [DOMAIN s1 -> DOMAIN s2] :
        /\ \A i, j \in DOMAIN s1 : i # j => f[i] # f[j]
        /\ \A i \in DOMAIN s1 :
            /\ s2[f[i]].title = s1[i].title
            /\ s2[f[i]].content = s1[i].content
            /\ s2[f[i]].display_order = s1[i].display_order
            /\ IF s1[i].parent_id = None THEN s2[f[i]].parent_id = None
               ELSE /\ s1[i].parent_id[1] \in DOMAIN s1
                    /\ s2[f[i]].parent_id = Some(f[s1[i].parent_id[1]])

\* C1: in every state that create, update, delete and reorder reach, the
\* parent of a section has no parent itself: no section is the child of a
\* child (stated of parents that are rows of the table).
C1_DepthAtMostTwo ==
    \A i, p, g \in DOMAIN sections :
        ~(sections[i].parent_id = Some(p) /\ sections[p].parent_id = Some(g))

\* C2: in every reachable state, the display_order values of the sections
\* that share a parent_id are exactly 0..n-1.
C2_SiblingOrdersDense ==
    \A i \in DOMAIN sections : Dense(sections, sections[i].parent_id)

\* C3: right after a successful reorder(id, new_order), for any integer
\* new_order, the display_order values of the target's siblings are exactly
\* 0..n-1, whatever they were before.
C3_ReorderRenumbers ==
    (last.op = "reorder" /\ last.status = "ok")
        => /\ last.arg[1] \in DOMAIN sections
           /\ Dense(sections, sections[last.arg[1]].parent_id)

\* a reorder has just renumbered three siblings
C3_Witness ==
    /\ last.op = "reorder" /\ last.status = "ok"
    /\ Cardinality(Siblings(sections, sections[last.arg[1]].parent_id)) >= 3

\* C4: delete(id) of a top-level section removes exactly that section, its
\* children, and the questions and recall sessions of those sections, and
\* leaves every other row as it was.
C4_DeleteRemovesClosedSet ==
    [][(/\ last'.op = "delete" /\ last'.status = "ok"
        /\ sections[last'.arg[1]].parent_id = None)
          => LET closed == {last'.arg[1]} \cup Children(sections, last'.arg[1]) IN
             /\ sections' = Restrict(sections, (DOMAIN sections) \ closed)
             /\ questions' =
                  Restrict(questions,
                           (DOMAIN questions) \ OwnedBy(questions, closed))
             /\ recall_sessions' =
                  Restrict(recall_sessions,
                           (DOMAIN recall_sessions)
                               \ OwnedBy(recall_sessions, closed))]_vars

\* C6: in every reachable state, exporting all sections and importing the
\* document into an empty store gives a store with the same forest.
C6_ExportImportIsomorphic ==
    \A rank \in Ranks(sections) :
        Isomorphic(sections, ImportResult(EmptyTable, ExportAll(sections, rank)))

\* C7: a create whose parent_id names a section that has a parent itself
\* fails with InvalidDepth and leaves the sections as they were.
C7_CreateUnderSubsectionFails ==
    [][\A p \in DOMAIN sections :
          (/\ last'.op = "create" /\ last'.arg = Some(p)
           /\ sections[p].parent_id # None)
              => (last'.status = "InvalidDepth" /\ sections' = sections)]_vars

\* a create under a subsection has just been refused
C7_Witness ==
    /\ last.op = "create" /\ last.status = "InvalidDepth"
    /\ last.arg[1] \in DOMAIN sections
    /\ sections[last.arg[1]].parent_id # None

(***************************************************************************)
(* reorder_sections on worker threads.  A sync handler runs in the thread  *)
(* pool with a session of its own (SessionLocal, autoflush off).  The two  *)
(* queries read what is committed when they run; a row the session already *)
(* holds keeps the values first loaded.  The writes of the commit are one  *)
(* SQLite transaction.                                                     *)
(***************************************************************************)
\* db_section = db.query(NoteSection).filter(id == section_id).first()
LoadTarget(w, id, new_order) ==
    /\ reorders[w].pc = "idle"
    /\ IF id \in DOMAIN sections
       THEN /\ reorders' = [reorders EXCEPT ![w] =
                   [pc |-> "target", id |-> id, new_order |-> new_order,
                    parent_id |-> sections[id].parent_id,
                    display_order |-> sections[id].display_order]]
            /\ last' = last
       ELSE /\ reorders' = [reorders EXCEPT ![w] = Done]
            /\ last' = Outcome("reorder", Some(id), "NotFound")
    /\ UNCHANGED <<sections, questions, recall_sessions>>

\* siblings = db.query(NoteSection).filter(parent_id == ...).order_by(...).all()
LoadSiblings(w) ==
    LET r == reorders[w] IN
    /\ r.pc = "target"
    /\ \E siblings \in Orderings(sections, Siblings(sections, r.parent_id)) :
           reorders' = [reorders EXCEPT ![w] =
               [pc |-> "siblings", id |-> r.id, new_order |-> r.new_order,
                siblings |-> siblings,
                loaded |-> [i \in Range(siblings) \cup {r.id} |->
                               IF i = r.id THEN r.display_order
                               ELSE sections[i].display_order]]]
    /\ UNCHANGED <<sections, questions, recall_sessions, last>>

\* the loop over enumerate(siblings) and db.commit()
CommitReorder(w) ==
    LET r == reorders[w] IN
    /\ r.pc = "siblings"
    /\ sections' = Flush(sections, r.loaded, Placed(r.id, r.new_order, r.siblings))
    /\ reorders' = [reorders EXCEPT ![w] = Done]
    /\ last' = Outcome("reorder", Some(r.id), "ok")
    /\ UNCHANGED <<questions, recall_sessions>>

\* sections are created first, then each worker serves one reorder request
ReorderNext ==
    \/ \E t \in StudyTitles, c \in NoteContents, p \in ParentArgs :
           /\ \A w \in Workers : reorders[w] = Idle
           /\ CreateSection(t, c, p)
    \/ \E w \in Workers, id \in SectionIds, n \in NewOrderArgs : LoadTarget(w, id, n)
    \/ \E w \in Workers : LoadSiblings(w)
    \/ \E w \in Workers : CommitReorder(w)

ReorderSpec == Init /\ [][ReorderNext]_vars

\* C5: when two reorder requests run at once, each in its own session, they
\* end with the display_order values of every set of siblings exactly 0..n-1.
C5_ConcurrentReordersDense ==
    (\A w \in Workers : reorders[w] = Done)
        => \A i \in DOMAIN sections : Dense(sections, sections[i].parent_id)

(***************************************************************************)
(* Specification of the quiz router over a store of sections.              *)
(***************************************************************************)
\* the requests that build the sections a quiz or a recall reads
StudyNotes ==
    \/ \E t \in StudyTitles, c \in StudyContents, p \in ParentArgs :
           /\ NextId(sections) <= MaxStudyId
           /\ CreateSection(t, c, p)
    \/ \E id \in StudyIds, p \in ParentArgs :
           UpdateSection(id, None, None, None, p)
    \/ \E id \in StudyIds : DeleteSection(id)

\* the worker that serves the calls to the LLM where one router is specified
Callers == {1}

\* the requests that delete the questions of a section
ClearRequests ==
    \E id \in StudyIds, incl \in BOOLEAN : ClearSectionQuestions(id, incl)

QuizNext ==
    \/ StudyNotes
    \/ \E w \in Callers, ids \in SectionIdLists, incl \in BOOLEAN :
           AwaitGenerate(w, ids, incl)
    \/ \E w \in Callers, k \in 1..Len(QuizReplies) :
           ResumeGenerate(w, QuizReplies[k])
    \/ ClearRequests

QuizSpec == Init /\ [][QuizNext]_vars

\* no request is waiting for the LLM
Quiet == \A w \in Workers : reorders[w] = Idle

\* the rows of after that before does not hold
Added(before, after) == (DOMAIN after) \ (DOMAIN before)

\* every row of before is a row of after, unchanged
Kept(before, after) ==
    \A r \in DOMAIN before : r \in DOMAIN after /\ after[r] = before[r]

\* C8: a generate_for call that succeeds adds exactly one Question per draft
\* the gateway returned, each with section_id the first requested id; a call
\* that fails adds no row.
C8_GenerateAddsOneRowPerDraft ==
    [][last'.op = "generate" =>
          IF last'.status = "ok"
          THEN \A w \in Callers, k \in 1..Len(QuizReplies) :
                   ResumeGenerate(w, QuizReplies[k]) =>
                       /\ Cardinality(Added(questions, questions'))
                              = Len(GenerateQuestions(QuizReplies[k]).v)
                       /\ \A r \in Added(questions, questions') :
                              questions'[r].section_id
                                  = reorders[w].section_ids[1]
                       /\ Kept(questions, questions')
          ELSE questions' = questions]_vars

(***************************************************************************)
(* Specification of the recall router over a store of sections.            *)
(***************************************************************************)
RecallNext ==
    \/ StudyNotes
    \/ \E w \in Callers, ids \in SectionIdLists, text \in UserRecalls,
          incl \in BOOLEAN :
           AwaitAnalyze(w, ids, text, incl)
    \/ \E w \in Callers, k \in 1..Len(RecallReplies) :
           ResumeAnalyze(w, RecallReplies[k])

RecallSpec == Init /\ [][RecallNext]_vars

\* C9: when the gateway answers a recall analysis with text that is not
\* JSON, submit does not fail: it adds one RecallSession whose score is 0 and
\* whose analysis is the fallback value.
C9_UnparsableAnalysisFallsBack ==
    [][(/\ \E w \in Callers :
              reorders[w].pc = "analyze" /\ reorders'[w].pc = "idle"
        /\ last'.reply = "text") =>
          /\ last'.op = "analyze" /\ last'.status = "ok"
          /\ Cardinality(Added(recall_sessions, recall_sessions')) = 1
          /\ \A r \in Added(recall_sessions, recall_sessions') :
                 /\ recall_sessions'[r].score = JInt(0)
                 /\ recall_sessions'[r].analysis = FallbackAnalysis
          /\ Kept(recall_sessions, recall_sessions')]_vars

\* C10: in every reachable state, the score of every RecallSession is null
\* or an integer in 0..100.
C10_ScoreWellFormed ==
    \A r \in DOMAIN recall_sessions :
        LET score == recall_sessions[r].score IN
        \/ score.t = "null"
        \/ (score.t = "int" /\ score.v[1] >= 0 /\ score.v[1] <= 100)

\* C11: a submit that succeeds persists a RecallSession whose section_id is
\* the first id of the requested section_ids list, also when that first id
\* names no section and a later id does.
C11_SessionOwnedByFirstRequested ==
    [][(last'.op = "analyze" /\ last'.status = "ok") =>
          \A w \in Callers, k \in 1..Len(RecallReplies) :
              ResumeAnalyze(w, RecallReplies[k]) =>
                  \A r \in Added(recall_sessions, recall_sessions') :
                      recall_sessions'[r].section_id
                          = reorders[w].section_ids[1]]_vars

\* C18: in every state the requests reach one at a time, the section_id of
\* every Question is the id of a section of the store.
C18_QuestionOwnerExists ==
    \A r \in DOMAIN questions : questions[r].section_id \in DOMAIN sections

\* C19: in every state that create, update, delete, reorder and import
\* reach, a parent_id that is not null is the id of a section of the store.
C19_ParentExists ==
    \A i \in DOMAIN sections :
        sections[i].parent_id # None
            => sections[i].parent_id[1] \in DOMAIN sections

(***************************************************************************)
(* Specification of the two handlers that aggregate the content of the     *)
(* requested sections: the LLM is down or answers a quiz with text that is *)
(* not JSON, and answers a recall with an analysis that is saved.          *)
(***************************************************************************)
AggregateNext ==
    \/ StudyNotes
    \/ \E w \in Callers, ids \in SectionIdLists, incl \in BOOLEAN :
           AwaitGenerate(w, ids, incl)
    \/ \E w \in Callers, k \in {1, 2} : ResumeGenerate(w, QuizReplies[k])
    \/ \E w \in Callers, ids \in SectionIdLists, text \in UserRecalls,
          incl \in BOOLEAN :
           AwaitAnalyze(w, ids, text, incl)
    \/ \E w \in Callers, k \in {1, 3} : ResumeAnalyze(w, RecallReplies[k])

AggregateSpec == Init /\ [][AggregateNext]_vars

\* the sections a request resolves to
ResolvedSet(s, section_ids, include_subsections) ==
    UNION {Range(all) : all \in Resolutions(s, section_ids, include_subsections)}

\* EmptyContent is reported only for a request that resolved to at least
\* one section, all of blank content
EmptyContentOnlyForBlank(s, section_ids, include_subsections, status) ==
    status = "EmptyContent" =>
        /\ ResolvedSet(s, section_ids, include_subsections) # {}
        /\ \A i \in ResolvedSet(s, section_ids, include_subsections) :
               ~NonEmpty(Strip(s[i].content))

\* the claim as stated: an empty resolved set gives NoSectionsFound
EmptyResolutionFails(s, section_ids, include_subsections, status) ==
    /\ ResolvedSet(s, section_ids, include_subsections) = {}
           => status = "NoSectionsFound"
    /\ EmptyContentOnlyForBlank(s, section_ids, include_subsections, status)

\* the claim as amended: an empty list and, for submit, a blank recall are
\* refused first, each with its own error
EmptyResolutionFailsAfterInput(s, section_ids, recalled, include_subsections,
                               status) ==
    /\ ~NonEmpty(section_ids) => status = "NoSelection"
    /\ (NonEmpty(section_ids) /\ ~recalled) => status = "NoRecall"
    /\ (/\ NonEmpty(section_ids) /\ recalled
        /\ ResolvedSet(s, section_ids, include_subsections) = {})
           => status = "NoSectionsFound"
    /\ EmptyContentOnlyForBlank(s, section_ids, include_subsections, status)

\* worker w has just run a handler up to its LLM call, or to the error that
\* ended it before
Checked(w, op) ==
    /\ reorders[w].pc = "idle"
    /\ \/ reorders'[w].pc = op
       \/ last'.op = op /\ reorders' = reorders

\* the outcome of these checks
CheckedStatus(w, op) == IF reorders'[w].pc = op THEN "ok" ELSE last'.status

\* C12 as stated: whenever the requested ids resolve to no section (every id
\* is absent, or the list is empty), generate_for and submit fail with
\* NoSectionsFound and never with EmptyContent; EmptyContent is reported only
\* when a section resolved and all resolved sections have blank content.
C12_EmptyResolutionIsNoSectionsFound ==
    [][\A w \in Callers :
          /\ Checked(w, "generate") =>
               \A ids \in SectionIdLists, incl \in BOOLEAN :
                   \/ EmptyResolutionFails(sections, ids, incl,
                                           CheckedStatus(w, "generate"))
                   \/ ~AwaitGenerate(w, ids, incl)
          /\ Checked(w, "analyze") =>
               \A ids \in SectionIdLists, text \in UserRecalls,
                  incl \in BOOLEAN :
                   \/ EmptyResolutionFails(sections, ids, incl,
                                           CheckedStatus(w, "analyze"))
                   \/ ~AwaitAnalyze(w, ids, text, incl)]_vars

\* C12 as amended: a request whose list is not empty (and, for submit,
\* whose user_recall is not blank) and whose ids all name no section fails
\* with NoSectionsFound and never with EmptyContent; an empty list fails
\* with NoSelection and a blank user_recall of submit with NoRecall;
\* EmptyContent is reported only when a section resolved and all resolved
\* sections have blank content.
C12_AbsentIdsAreNoSectionsFound ==
    [][\A w \in Callers :
          /\ Checked(w, "generate") =>
               \A ids \in SectionIdLists, incl \in BOOLEAN :
                   \/ EmptyResolutionFailsAfterInput(
                          sections, ids, TRUE, incl,
                          CheckedStatus(w, "generate"))
                   \/ ~AwaitGenerate(w, ids, incl)
          /\ Checked(w, "analyze") =>
               \A ids \in SectionIdLists, text \in UserRecalls,
                  incl \in BOOLEAN :
                   \/ EmptyResolutionFailsAfterInput(
                          sections, ids, NonEmpty(Strip(text)), incl,
                          CheckedStatus(w, "analyze"))
                   \/ ~AwaitAnalyze(w, ids, text, incl)]_vars

\* a submit has just been refused with NoSectionsFound over a store that
\* holds a section
C12_Witness ==
    /\ last.op = "analyze" /\ last.status = "NoSectionsFound"
    /\ DOMAIN sections # {}

\* C17: an update that fails with InvalidSelfParent or InvalidDepth leaves
\* the stored section as it was (title, content, display_order, parent_id),
\* whatever else the request carried.
C17_FailedUpdateKeepsRow ==
    [][(/\ last'.op = "update"
        /\ last'.status \in {"InvalidSelfParent", "InvalidDepth"})
          => /\ DOMAIN sections' = DOMAIN sections
             /\ sections'[last'.arg[1]] = sections[last'.arg[1]]]_vars

\* an update of a section under a subsection has just been refused
C17_Witness ==
    /\ last.op = "update" /\ last.status = "InvalidDepth"
    /\ last.arg[1] \in DOMAIN sections

\* new_index limited to the positions 0..n-1 of n siblings
Clamped(new_index, n) ==
    IF new_index < 0 THEN 0
    ELSE IF new_index > n - 1 THEN n - 1
    ELSE new_index

\* C14: after reorder(id, new_index) of a section with n siblings (itself
\* included), for any integer new_index, the display_order of the target is
\* new_index clamped to 0..n-1 (0 when new_index is negative), and the other
\* siblings keep the order they had.
C14_ReorderClamps ==
    [][(last'.op = "reorder" /\ last'.status = "ok") =>
          \A new_index \in NewOrderArgs :
              ReorderSections(last'.arg[1], new_index) =>
                  LET id == last'.arg[1]
                      group == Siblings(sections, sections[id].parent_id)
                  IN  /\ sections'[id].display_order
                             = Clamped(new_index, Cardinality(group))
                      /\ \A a, b \in group \ {id} :
                             sections[a].display_order < sections[b].display_order
                                 => sections'[a].display_order
                                        < sections'[b].display_order]_vars

(***************************************************************************)
(* Specification of the notes router without update: the sections that     *)
(* create, delete, reorder and import leave.                               *)
(***************************************************************************)
ImportNext ==
    \/ \E t \in NoteTitles, c \in NoteContents, p \in ParentArgs :
           CreateSection(t, c, p)
    \/ \E id \in SectionIds : DeleteSection(id)
    \/ \E id \in SectionIds, n \in NewOrderArgs : ReorderSections(id, n)
    \/ \E d \in ImportDocuments : ImportNotes(d)

ImportSpec == Init /\ [][ImportNext]_vars

\* C15: after the import of any document, also one that nests children
\* deeper than two levels, every section with a parent has a parent whose
\* parent is null.
C15_ImportLimitsDepth ==
    last.op = "import" =>
        \A i, p \in DOMAIN sections :
            sections[i].parent_id = Some(p) => sections[p].parent_id = None

(***************************************************************************)
(* POST /api/quiz/check  check_answer                                      *)
(***************************************************************************)
\* the letters of the texts of the model, and their upper case
LowerCase == <<"a", "b", "p">>
UpperCase == <<"A", "B", "P">>

\* str.upper()
Upper(text) ==
    [k \in 1..Len(text) |->
        IF \E c \in 1..Len(LowerCase) : LowerCase[c] = text[k]
        THEN UpperCase[CHOOSE c \in 1..Len(LowerCase) : LowerCase[c] = text[k]]
        ELSE text[k]]

\* str.startswith(prefix)
StartsWith(text, prefix) ==
    /\ Len(text) >= Len(prefix)
    /\ SubSeq(text, 1, Len(prefix)) = prefix

\* an mcq draft with the given correct_answer
McqDraft(correct_answer) ==
    JDict([question_type |-> JStr(<<"mcq">>),
           question_text |-> JStr(<<"q">>),
           options |-> JList(<<JStr(<<"A">>), JStr(<<"B">>)>>),
           correct_answer |-> JStr(correct_answer),
           explanation |-> JNull])

\* the answers of the LLM that give the questions to check
CheckReplies ==
    <<Json(JList(<<DraftMcq>>)),
      Json(JList(<<McqDraft(<<"a", ")", " ", "P">>)>>)),
      Json(JList(<<McqDraft(<<" ">>)>>)),
      Json(JList(<<DraftFree>>))>>

\* AnswerCheck.user_answer
UserAnswers ==
    {<<>>, <<" ">>, <<"a">>, <<" ", "A", ")", " ", "P">>, <<"B">>, <<"p">>}

\* AnswerCheck.question_id
QuestionIds == 1..(MaxRowId + 1)

\* question.question_type == "mcq"
IsMcq(question) == question.question_type = JStr(<<"mcq">>)

\* user_ans.startswith(correct_ans[0]) or correct_ans.startswith(user_ans[0]),
\* where an index into an empty string raises IndexError: the value of
\* is_correct, or "IndexError"
McqMatch(user_answer, correct_answer) ==
    LET user_ans == Upper(Strip(user_answer))
        correct_ans == Upper(Strip(correct_answer))
    IN  IF Len(correct_ans) = 0 THEN "IndexError"
        ELSE IF StartsWith(user_ans, <<correct_ans[1]>>) THEN "true"
        ELSE IF Len(user_ans) = 0 THEN "IndexError"
        ELSE IF StartsWith(correct_ans, <<user_ans[1]>>) THEN "true"
        ELSE "false"

\* is_correct of the response: False for a question that is not mcq
IsCorrect(question, user_answer) ==
    IF IsMcq(question)
    THEN McqMatch(user_answer, question.correct_answer.v)
    ELSE "false"

CheckStatus(table, question_id, user_answer) ==
    IF question_id \notin DOMAIN table THEN "NotFound"
    ELSE IF IsCorrect(table[question_id], user_answer) = "IndexError"
         THEN "ServerError"
    ELSE "ok"

\* the handler reads the question and writes nothing
CheckAnswer(question_id, user_answer) ==
    LET status == CheckStatus(questions, question_id, user_answer) IN
    /\ last' = Answered("check", Some(question_id),
                        IF status = "ok"
                        THEN IsCorrect(questions[question_id], user_answer)
                        ELSE "none",
                        status)
    /\ UNCHANGED <<sections, questions, recall_sessions, reorders>>

(***************************************************************************)
(* Specification of the quiz router with check_answer: the questions are   *)
(* generated for one section at a time.                                    *)
(***************************************************************************)
CheckNext ==
    \/ StudyNotes
    \/ \E w \in Callers, id \in StudyIds, incl \in BOOLEAN :
           AwaitGenerate(w, <<id>>, incl)
    \/ \E w \in Callers, k \in 1..Len(CheckReplies) :
           ResumeGenerate(w, CheckReplies[k])
    \/ ClearRequests
    \/ \E q \in QuestionIds, text \in UserAnswers : CheckAnswer(q, text)

CheckSpec == Init /\ [][CheckNext]_vars

\* after trimming and uppercasing both, the user's answer starts with the
\* first character of the correct answer, or the correct answer starts with
\* the first character of the user's answer
TolerantMatch(user_answer, correct_answer) ==
    LET user_ans == Upper(Strip(user_answer))
        correct_ans == Upper(Strip(correct_answer))
    IN  \/ Len(correct_ans) > 0 /\ StartsWith(user_ans, <<correct_ans[1]>>)
        \/ Len(user_ans) > 0 /\ StartsWith(correct_ans, <<user_ans[1]>>)

\* C13: for every mcq Question of the store and every user_answer (the empty
\* string and all-whitespace strings included), check_answer returns a result
\* whose is_correct is true exactly when the two answers match tolerantly;
\* check_answer fails only with NotFound, for a question_id of no question.
C13_CheckAnswerTolerant ==
    [][last'.op = "check" =>
          \A text \in UserAnswers :
              CheckAnswer(last'.arg[1], text) =>
                  LET q == last'.arg[1] IN
                  /\ (q \in DOMAIN questions /\ IsMcq(questions[q])) =>
                         /\ last'.status = "ok"
                         /\ last'.reply = "true"
                                <=> TolerantMatch(text, questions[q].correct_answer.v)
                  /\ last'.status # "ok" =>
                         (last'.status = "NotFound" /\ q \notin DOMAIN questions)]_vars

(***************************************************************************)
(* Specification of the two handlers that call the LLM, each request for   *)
(* one section without its subsections, while sections are created, moved  *)
(* and deleted; the LLM is down or gives an answer that is saved.          *)
(***************************************************************************)
InflightNext ==
    \/ StudyNotes
    \/ \E w \in Workers, id \in StudyIds : AwaitGenerate(w, <<id>>, FALSE)
    \/ \E w \in Workers, k \in {1, 8} : ResumeGenerate(w, QuizReplies[k])
    \/ \E w \in Workers, id \in StudyIds, text \in UserRecalls :
           AwaitAnalyze(w, <<id>>, text, FALSE)
    \/ \E w \in Workers, k \in {1, 3} : ResumeAnalyze(w, RecallReplies[k])

InflightSpec == Init /\ [][InflightNext]_vars

\* C16: when a delete runs while a generate_for or a submit on the section
\* waits for the LLM, the calls end in a state where the section_id of every
\* Question and every RecallSession is the id of a section of the store.
C16_NoRowOfDeletedSection ==
    Quiet =>
        /\ \A r \in DOMAIN questions :
               questions[r].section_id \in DOMAIN sections
        /\ \A r \in DOMAIN recall_sessions :
               recall_sessions[r].section_id \in DOMAIN sections
====
